---- MODULE Spec2Model ----
(***************************************************************************)
(* State-machine model of src/src/App.tsx: the camera session (startCamera *)
(* / stopCamera / unmount cleanup), the conversion log                     *)
(* (handleConvertToText / clearConversions), the clipboard copy with its   *)
(* 2000 ms "copied" mark, and the dark-mode toggle.                        *)
(*                                                                         *)
(* React state setters are modelled as assignments to the component's     *)
(* state variables.  Every event handler runs to completion on the single  *)
(* UI thread, so each handler (or each continuation after an await) is one *)
(* atomic action.  Time is the reading of the millisecond clock (Date.now) *)
(* and advances only by the Tick action; timers fire at their deadline.    *)
(* What the program only writes and never reads back (console lines, the   *)
(* text put on the system clipboard) is not part of the state.             *)
(***************************************************************************)
EXTENDS Integers, Sequences, FiniteSets, Bags, TLC

\* ---------------------------------------------------------------- bounds
MaxStreams == 2      \* getUserMedia requests in flight plus streams acquired
MaxLog     == 2      \* records in the conversion log
MaxCopies  == 2      \* clipboard writes in flight plus armed timers
MaxTicks   == 1      \* clock ticks during which the user still acts

\* ------------------------------------------------------ program constants
CopiedDelay == 2000  \* setTimeout(..., 2000)
NullId      == -1    \* copiedId === null
NullStream  == 0     \* streamRef.current === null, srcObject === null

\* the clock is sampled twice in every copied window
TickStep == CopiedDelay \div 2
MaxTime  == MaxTicks * TickStep

NoError       == "<null>"
InsecureMsg   == "Camera access requires HTTPS or localhost connection."
DeniedMsg     == "Camera access denied. Please enable camera permissions."
PlaceholderText == "Hello, how are you?"
NoMediaDevicesMsg == "Cannot read properties of undefined (reading 'getUserMedia')"

\* Values getUserMedia can reject with: a DOMException (an Error, with the
\* platform's message) or a value that is not an Error.
Rejections ==
  { [isError |-> TRUE,  message |-> "Permission denied"],
    [isError |-> FALSE, message |-> "denied"] }

VARIABLES
  protocol,      \* window.location.protocol
  hostname,      \* window.location.hostname
  mediaDevices,  \* navigator.mediaDevices is defined
  view,          \* "rendered" (effects not yet run), "mounted", "unmounted"
  isStreaming, error, conversions, copiedId, isDarkMode,   \* useState
  videoRef,      \* videoRef.current is the <video> element (TRUE) or null
  streamRef,     \* streamRef.current: a stream id or NullStream
  srcObject,     \* the <video> element's srcObject
  docDark,       \* documentElement carries the class 'dark'
  pending,       \* getUserMedia promises not yet settled
  tracks,        \* stream id -> state of its (single, video) track
  now,           \* Date.now()
  clipPending,   \* bag of clipboard.writeText calls not yet settled
  timers         \* armed setTimeout callbacks, in arming order: the deadline
                 \* and the id in scope of the call that armed the timer

envVars == <<protocol, hostname, mediaDevices>>
camVars == <<videoRef, streamRef, srcObject, pending, tracks, isStreaming, error>>
logVars == <<conversions>>
copyVars == <<copiedId, clipPending, timers>>
darkVars == <<isDarkMode, docDark>>
vars == <<protocol, hostname, mediaDevices, view, isStreaming,
          error, conversions, copiedId, isDarkMode, videoRef, streamRef,
          srcObject, docDark, pending, tracks, now, clipPending, timers>>

\* ---------------------------------------------------------------- helpers
Min(a, b) == IF a <= b THEN a ELSE b

\* window.location.protocol !== 'https:' && window.location.hostname !== 'localhost'
Insecure == protocol # "https:" /\ hostname # "localhost"

\* err instanceof Error ? err.message : 'Camera access denied. ...'
errorMessage(err) == IF err.isError THEN err.message ELSE DeniedMsg

\* new Date().toLocaleTimeString(): the time of day, to the second
toLocaleTimeString(t) == (t \div 1000) % 86400

\* the record built by handleConvertToText at clock reading t
newConversion(t) ==
  [id |-> t, text |-> PlaceholderText, timestamp |-> toLocaleTimeString(t)]

\* a freshly acquired video track, and the same track after track.stop();
\* track.enabled = false
LiveTrack == [readyState |-> "live", enabled |-> TRUE]
stopTrack(t) == [readyState |-> "ended", enabled |-> FALSE]

LiveStreams == {s \in DOMAIN tracks : tracks[s].readyState = "live"}

\* the state stopCamera can reach: the refs, the tracks and the useState cells
UIState ==
  [streamRef |-> streamRef, srcObject |-> srcObject, tracks |-> tracks,
   isStreaming |-> isStreaming, error |-> error, conversions |-> conversions,
   copiedId |-> copiedId]

\* stopCamera that clears the handle and the flag but stops no track
stopCameraLeavesTracks(vref, st) ==
  IF st.streamRef # NullStream
  THEN [st EXCEPT
          !.srcObject = IF vref THEN NullStream ELSE st.srcObject,
          !.streamRef = NullStream,
          !.isStreaming = FALSE]
  ELSE st

\* stopCamera that also resets the error banner, outside the guard
stopCameraClearsError(vref, st) ==
  IF st.streamRef # NullStream
  THEN [st EXCEPT
          !.tracks = [st.tracks EXCEPT
                        ![st.streamRef] = stopTrack(st.tracks[st.streamRef])],
          !.srcObject = IF vref THEN NullStream ELSE st.srcObject,
          !.streamRef = NullStream,
          !.isStreaming = FALSE,
          !.error = NoError]
  ELSE [st EXCEPT !.error = NoError]

\* stopCamera that also takes the copied mark off
stopCameraClearsMark(vref, st) ==
  IF st.streamRef # NullStream
  THEN [st EXCEPT
          !.tracks = [st.tracks EXCEPT
                        ![st.streamRef] = stopTrack(st.tracks[st.streamRef])],
          !.srcObject = IF vref THEN NullStream ELSE st.srcObject,
          !.streamRef = NullStream,
          !.isStreaming = FALSE,
          !.copiedId = NullId]
  ELSE st

\* stopCamera as a function of the state st it runs in; vref is the value of
\* videoRef.current at that moment
stopCamera(vref, st) ==
  IF st.streamRef # NullStream
  THEN [st EXCEPT
          !.tracks = [st.tracks EXCEPT
                        ![st.streamRef] = stopTrack(st.tracks[st.streamRef])],
          !.srcObject = IF vref THEN NullStream ELSE st.srcObject,
          !.streamRef = NullStream,
          !.isStreaming = FALSE]
  ELSE st

\* the variables take the values of the state r
Becomes(r) ==
  /\ streamRef' = r.streamRef
  /\ srcObject' = r.srcObject
  /\ tracks' = r.tracks
  /\ isStreaming' = r.isStreaming
  /\ error' = r.error
  /\ conversions' = r.conversions
  /\ copiedId' = r.copiedId

\* the view is on screen and the user still acts
Interactive == view = "mounted" /\ now <= MaxTime

\* ------------------------------------------------------------------- Init
Init ==
  /\ protocol \in {"https:", "http:"}
  /\ hostname \in {"localhost", "127.0.0.1"}
  /\ mediaDevices \in BOOLEAN
  /\ view = "rendered"
  /\ isStreaming = FALSE
  /\ error = NoError
  /\ conversions = <<>>
  /\ copiedId = NullId
  /\ isDarkMode = FALSE
  /\ videoRef = TRUE
  /\ streamRef = NullStream
  /\ srcObject = NullStream
  /\ docDark = FALSE
  /\ pending = 0
  /\ tracks = <<>>
  /\ now = 0
  /\ clipPending = EmptyBag
  /\ timers = <<>>

\* ---------------------------------------------------------------- actions
\* the mount effect; prefersDark is what
\* matchMedia('(prefers-color-scheme: dark)').matches returns
Mount ==
  /\ view = "rendered"
  /\ view' = "mounted"
  /\ \E prefersDark \in BOOLEAN :
       /\ isDarkMode' = (IF prefersDark THEN TRUE ELSE isDarkMode)
       /\ docDark' = (IF prefersDark THEN TRUE ELSE docDark)
  /\ error' = (IF Insecure THEN InsecureMsg ELSE error)
  /\ UNCHANGED <<envVars, isStreaming, conversions, copiedId, videoRef,
                 streamRef, srcObject, pending, tracks, now, clipPending,
                 timers>>

\* toggleDarkMode that flips the flag and leaves the root element alone
toggleDarkModeKeepsClass ==
  /\ Interactive
  /\ isDarkMode' = ~isDarkMode
  /\ UNCHANGED <<envVars, view, camVars, logVars, copyVars, docDark, now>>

\* the theme button: flips the flag and toggles the class of the root element
toggleDarkMode ==
  /\ Interactive
  /\ isDarkMode' = ~isDarkMode
  /\ docDark' = ~docDark
  /\ UNCHANGED <<envVars, view, camVars, logVars, copyVars, now>>

\* startCamera up to the await: the getUserMedia request is issued
startCamera ==
  /\ Interactive
  /\ ~isStreaming
  /\ mediaDevices
  /\ Len(tracks) + pending < MaxStreams
  /\ pending' = pending + 1
  /\ UNCHANGED <<envVars, view, videoRef, streamRef, srcObject, tracks,
                 isStreaming, error, logVars, copyVars, darkVars, now>>

\* startCamera where navigator.mediaDevices is undefined: the TypeError is
\* thrown inside the try and handled by the catch
startCameraThrows ==
  /\ Interactive
  /\ ~isStreaming
  /\ ~mediaDevices
  /\ error' = NoMediaDevicesMsg
  /\ UNCHANGED <<envVars, view, videoRef, streamRef, srcObject, pending,
                 tracks, isStreaming, logVars, copyVars, darkVars, now>>

\* getUserMediaResolve without setError(null)
getUserMediaResolveKeepsError ==
  /\ pending > 0
  /\ pending' = pending - 1
  /\ LET stream == Len(tracks) + 1 IN
       /\ tracks' = Append(tracks, LiveTrack)
       /\ IF videoRef
          THEN /\ srcObject' = stream
               /\ streamRef' = stream
               /\ isStreaming' = TRUE
               /\ UNCHANGED error
          ELSE UNCHANGED <<srcObject, streamRef, isStreaming, error>>
  /\ UNCHANGED <<envVars, view, videoRef, logVars, copyVars, darkVars, now>>

\* getUserMediaResolve that stores the handle before looking at the ref
getUserMediaResolveStoresUnmounted ==
  /\ pending > 0
  /\ pending' = pending - 1
  /\ LET stream == Len(tracks) + 1 IN
       /\ tracks' = Append(tracks, LiveTrack)
       /\ streamRef' = stream
       /\ IF videoRef
          THEN /\ srcObject' = stream
               /\ isStreaming' = TRUE
               /\ error' = NoError
          ELSE UNCHANGED <<srcObject, isStreaming, error>>
  /\ UNCHANGED <<envVars, view, videoRef, logVars, copyVars, darkVars, now>>

\* the continuation of startCamera after getUserMedia resolves
getUserMediaResolve ==
  /\ pending > 0
  /\ pending' = pending - 1
  /\ LET stream == Len(tracks) + 1 IN
       /\ tracks' = Append(tracks, LiveTrack)
       /\ IF videoRef
          THEN /\ srcObject' = stream
               /\ streamRef' = stream
               /\ isStreaming' = TRUE
               /\ error' = NoError
          ELSE UNCHANGED <<srcObject, streamRef, isStreaming, error>>
  /\ UNCHANGED <<envVars, view, videoRef, logVars, copyVars, darkVars, now>>

\* the catch branch of startCamera after getUserMedia rejects
getUserMediaReject ==
  /\ pending > 0
  /\ pending' = pending - 1
  /\ \E err \in Rejections : error' = errorMessage(err)
  /\ UNCHANGED <<envVars, view, videoRef, streamRef, srcObject, tracks,
                 isStreaming, logVars, copyVars, darkVars, now>>

\* a Stop Camera button that also discards the acquisitions in flight
stopCameraClickCancels ==
  /\ Interactive
  /\ isStreaming
  /\ Becomes(stopCamera(videoRef, UIState))
  /\ pending' = 0
  /\ UNCHANGED <<envVars, view, videoRef, clipPending, timers, darkVars, now>>

\* the Stop Camera button, rendered only while isStreaming
stopCameraClick ==
  /\ Interactive
  /\ isStreaming
  /\ Becomes(stopCamera(videoRef, UIState))
  /\ UNCHANGED <<envVars, view, videoRef, pending, clipPending, timers,
                 darkVars, now>>

\* the view is removed: React clears the ref of the <video> element and runs
\* the cleanup of the second effect, which calls stopCamera.  Which of the
\* two comes first depends on the React version (cleanups run after the refs
\* are cleared since React 17), so both orders are taken.
Unmount ==
  /\ Interactive
  /\ view' = "unmounted"
  /\ videoRef' = FALSE
  /\ \E refAtCleanup \in {videoRef, FALSE} :
       Becomes(stopCamera(refAtCleanup, UIState))
  /\ UNCHANGED <<envVars, pending, clipPending, timers, darkVars, now>>

\* handleConvertToText that puts the new record at the end: [...prev, new]
handleConvertToTextAppends ==
  /\ Interactive
  /\ isStreaming
  /\ Len(conversions) < MaxLog
  /\ conversions' = Append(conversions, newConversion(now))
  /\ UNCHANGED <<envVars, view, camVars, copyVars, darkVars, now>>

\* handleConvertToText that overwrites the newest record:
\* [newConversion, ...prev.slice(1)]
handleConvertToTextReplacesHead ==
  /\ Interactive
  /\ isStreaming
  /\ Len(conversions) < MaxLog
  /\ conversions' = <<newConversion(now)>> \o
                      (IF conversions = <<>> THEN <<>> ELSE Tail(conversions))
  /\ UNCHANGED <<envVars, view, camVars, copyVars, darkVars, now>>

\* handleConvertToText behind a button that is never disabled
handleConvertToTextUngated ==
  /\ Interactive
  /\ Len(conversions) < MaxLog
  /\ conversions' = <<newConversion(now)>> \o conversions
  /\ UNCHANGED <<envVars, view, camVars, copyVars, darkVars, now>>

\* the Convert to Text button, disabled unless isStreaming
handleConvertToText ==
  /\ Interactive
  /\ isStreaming
  /\ Len(conversions) < MaxLog
  /\ conversions' = <<newConversion(now)>> \o conversions
  /\ UNCHANGED <<envVars, view, camVars, copyVars, darkVars, now>>

\* the Convert to Speech button, disabled unless isStreaming
handleConvertToSpeech ==
  /\ Interactive
  /\ isStreaming
  /\ UNCHANGED vars

\* clearConversions that drops the newest record only: prev.slice(1)
clearConversionsDropsHead ==
  /\ Interactive
  /\ Len(conversions) > 0
  /\ conversions' = Tail(conversions)
  /\ UNCHANGED <<envVars, view, camVars, copyVars, darkVars, now>>

\* the trash button, rendered only while the log is not empty
clearConversions ==
  /\ Interactive
  /\ Len(conversions) > 0
  /\ conversions' = <<>>
  /\ UNCHANGED <<envVars, view, camVars, copyVars, darkVars, now>>

\* copyToClipboard up to the await, for the record at position i
copyToClipboard ==
  /\ Interactive
  /\ BagCardinality(clipPending) + Len(timers) < MaxCopies
  /\ \E i \in 1..Len(conversions) :
       clipPending' = clipPending (+)
         SetToBag({[text |-> conversions[i].text, id |-> conversions[i].id]})
  /\ UNCHANGED <<envVars, view, camVars, logVars, copiedId, timers,
                 darkVars, now>>

\* a continuation that marks the record and arms no timer
clipboardResolveNoTimer ==
  /\ \E c \in BagToSet(clipPending) :
       /\ clipPending' = clipPending (-) SetToBag({c})
       /\ copiedId' = c.id
  /\ UNCHANGED <<envVars, view, camVars, logVars, timers, darkVars, now>>

\* the continuation of copyToClipboard after writeText resolves
clipboardResolve ==
  /\ \E c \in BagToSet(clipPending) :
       /\ clipPending' = clipPending (-) SetToBag({c})
       /\ copiedId' = c.id
       /\ timers' = Append(timers, [at |-> now + CopiedDelay, id |-> c.id])
  /\ UNCHANGED <<envVars, view, camVars, logVars, darkVars, now>>

\* the catch branch of copyToClipboard surfacing the failure to the user
clipboardRejectSetsError ==
  /\ \E c \in BagToSet(clipPending) :
       clipPending' = clipPending (-) SetToBag({c})
  /\ error' = "Failed to copy text"
  /\ UNCHANGED <<envVars, view, videoRef, streamRef, srcObject, pending,
                 tracks, isStreaming, logVars, copiedId, timers, darkVars, now>>

\* the catch branch of copyToClipboard (writeText rejects, or
\* navigator.clipboard is undefined)
clipboardReject ==
  /\ \E c \in BagToSet(clipPending) :
       clipPending' = clipPending (-) SetToBag({c})
  /\ UNCHANGED <<envVars, view, camVars, logVars, copiedId, timers,
                 darkVars, now>>

\* the callback armed by setTimeout(() => setCopiedId(null), 2000)
timerFires ==
  /\ timers # <<>>
  /\ Head(timers).at <= now
  /\ copiedId' = NullId
  /\ timers' = Tail(timers)
  /\ UNCHANGED <<envVars, view, camVars, logVars, clipPending, darkVars, now>>

\* the clock advances, but not past the deadline of an armed timer
Tick ==
  /\ now < MaxTime \/ timers # <<>>
  /\ timers # <<>> => Head(timers).at > now
  /\ now' = IF timers # <<>> THEN Min(now + TickStep, Head(timers).at)
                             ELSE now + TickStep
  /\ UNCHANGED <<envVars, view, camVars, logVars, copyVars, darkVars>>

Next ==
  \/ Mount
  \/ toggleDarkMode
  \/ startCamera
  \/ startCameraThrows
  \/ getUserMediaResolve
  \/ getUserMediaReject
  \/ stopCameraClick
  \/ Unmount
  \/ handleConvertToText
  \/ handleConvertToSpeech
  \/ clearConversions
  \/ copyToClipboard
  \/ clipboardResolve
  \/ clipboardReject
  \/ timerFires
  \/ Tick

Spec == Init /\ [][Next]_vars

\* The camera session on its own: the actions that read or write the camera
\* state.  The others leave camVars and view unchanged.
NextCamera ==
  \/ Mount
  \/ startCamera
  \/ startCameraThrows
  \/ getUserMediaResolve
  \/ getUserMediaReject
  \/ stopCameraClick
  \/ Unmount

SpecCamera == Init /\ [][NextCamera]_vars

\* The conversion log and the copied mark, with the part of the session
\* life cycle that enables and disables them.
NextLog ==
  \/ Mount
  \/ startCamera
  \/ getUserMediaResolve
  \/ stopCameraClick
  \/ Unmount
  \/ handleConvertToText
  \/ handleConvertToSpeech
  \/ clearConversions
  \/ copyToClipboard
  \/ clipboardResolve
  \/ clipboardReject
  \/ timerFires
  \/ Tick

\* the log does not read the environment: one deployment, where the camera
\* can be started
InitLog == Init /\ protocol = "https:" /\ hostname = "localhost" /\ mediaDevices

SpecLog == InitLog /\ [][NextLog]_vars

\* The whole application in two deployments: one where the camera can be
\* started, and an insecure one where the browser withholds mediaDevices.
InitApp ==
  /\ Init
  /\ <<protocol, hostname, mediaDevices>> \in
       {<<"https:", "localhost", TRUE>>, <<"http:", "127.0.0.1", FALSE>>}

SpecApp == InitApp /\ [][Next]_vars

\* The view with its presentation mode: the camera session and the theme
\* button, both initialised by the mount effect.
NextView ==
  \/ NextCamera
  \/ toggleDarkMode

SpecView == Init /\ [][NextView]_vars

\* The copied mark on its own: records are added, copied and their marks
\* expire, while the view may be torn down with writes and timers
\* outstanding.  Time passes, and the event loop runs every armed timer once
\* its delay has elapsed.
NextCopy ==
  \/ Mount
  \/ startCamera
  \/ getUserMediaResolve
  \/ Unmount
  \/ handleConvertToText
  \/ copyToClipboard
  \/ clipboardResolve
  \/ clipboardReject
  \/ timerFires
  \/ Tick

FairSpecCopy ==
  InitLog /\ [][NextCopy]_vars /\ WF_vars(Tick) /\ WF_vars(timerFires)

TypeOK ==
  /\ view \in {"rendered", "mounted", "unmounted"}
  /\ isStreaming \in BOOLEAN
  /\ videoRef \in BOOLEAN
  /\ streamRef \in 0..MaxStreams
  /\ srcObject \in 0..MaxStreams
  /\ pending \in 0..MaxStreams
  /\ Len(tracks) <= MaxStreams
  /\ Len(conversions) <= MaxLog
  /\ Len(timers) <= MaxCopies
\* ------------------------------------------------------------------ claims

\* C1: in every reachable state at most one acquired stream has a live
\* track.
C1_AtMostOneLiveStream == Cardinality(LiveStreams) <= 1

\* C2: once the view is destroyed and no acquisition is pending any more,
\* every stream that was acquired has its track stopped.
C2_NoLiveStreamAfterTeardown ==
  (view = "unmounted" /\ pending = 0) => LiveStreams = {}

\* C3: in an insecure environment (protocol not https and host not
\* localhost) no getUserMedia request is ever issued: none is pending and
\* none has produced a stream.
C3_NoRequestWhenInsecure == Insecure => (pending = 0 /\ tracks = <<>>)

\* a getUserMedia promise settles by rejecting: one request fewer, no stream
AcquisitionFails == pending' = pending - 1 /\ tracks' = tracks

\* C4: right after a failed acquisition is handled, streaming-active is
\* false and the error message is set and not empty.
C4_FailureLeavesInactive ==
  [][AcquisitionFails => (~isStreaming' /\ error' # NoError /\ error' # "")]_vars

\* a getUserMedia promise settles by resolving: a new stream exists
AcquisitionSucceeds == Len(tracks') = Len(tracks) + 1

\* what C5 promises of the state after a successful acquisition
StoredAndStreaming ==
  /\ streamRef' = Len(tracks')
  /\ isStreaming'
  /\ error' = NoError

\* C5 as stated: right after any successful acquisition the handle is
\* stored, streaming-active is true and the error is absent.
C5_SuccessAlwaysStores == [][AcquisitionSucceeds => StoredAndStreaming]_vars

\* C5, amended: right after an acquisition succeeds while the video element
\* is still mounted (videoRef.current is not null), the new stream is
\* stored in the handle and attached to the element, streaming-active is true
\* and the error is absent, whatever error was set before.
C5_SuccessStoresWhileMounted ==
  [][(AcquisitionSucceeds /\ videoRef)
       => (StoredAndStreaming /\ srcObject' = Len(tracks'))]_vars

\* C5 witness: a stream was acquired and stored in an environment where the
\* mount effect had set the insecure-context error, which is now cleared.
C5_Witness ==
  /\ Insecure
  /\ isStreaming
  /\ streamRef # NullStream
  /\ error = NoError

\* stop() runs on an active session: the stored handle is cleared
StopsActiveSession == streamRef # NullStream /\ streamRef' = NullStream

\* C6 as stated: stop() on an active session stops the track of the stored
\* stream, detaches the stream from the display surface, clears the handle
\* and sets streaming-active to false.
C6_StopAlwaysDetaches ==
  [][StopsActiveSession
       => /\ tracks'[streamRef].readyState = "ended"
          /\ srcObject' = NullStream
          /\ ~isStreaming']_vars

\* C6, amended: stop() on an active session stops the track of the stored
\* stream, clears the handle and sets streaming-active to false; it detaches
\* the stream from the video element when the element is still mounted
\* afterwards (the teardown call may find videoRef.current already null and
\* then leaves srcObject as it is).
C6_StopReleasesTracks ==
  [][StopsActiveSession
       => /\ tracks'[streamRef].readyState = "ended"
          /\ ~tracks'[streamRef].enabled
          /\ ~isStreaming'
          /\ (videoRef' => srcObject' = NullStream)]_vars

\* C6 witness: the Stop Camera button was used on an active session: the
\* view is mounted, a stream exists, its track has ended and nothing is
\* stored or attached.
C6_Witness ==
  /\ view = "mounted"
  /\ Len(tracks) = 1
  /\ tracks[1].readyState = "ended"
  /\ streamRef = NullStream
  /\ srcObject = NullStream
  /\ ~isStreaming

\* C7: stop() is idempotent: in a state with no stored session it changes
\* nothing (handle, flag, error, log, copied mark, tracks, srcObject), and
\* in every state stop();stop() gives the state a single stop() gives.
C7_StopIdempotent ==
  LET once  == stopCamera(videoRef, UIState)
      twice == stopCamera(videoRef, once)
  IN /\ twice = once
     /\ streamRef = NullStream => once = UIState

\* C7 witness: the teardown called stop() with no session stored (no stream
\* was ever acquired) while an error was shown.
C7_Witness ==
  /\ view = "unmounted"
  /\ tracks = <<>>
  /\ streamRef = NullStream
  /\ error # NoError

\* the log is in reverse-chronological order of creation: no record is
\* older than one behind it
NewestFirst ==
  \A i, j \in 1..Len(conversions) :
    i < j => conversions[i].id >= conversions[j].id

\* C8: every step that adds to the log adds exactly one record, the one
\* created at the current clock reading, at position 0, with the previous
\* log unchanged behind it; so the log is always newest first.
C8_AddInsertsAtHead ==
  /\ []NewestFirst
  /\ [][Len(conversions') > Len(conversions)
          => /\ Len(conversions') = Len(conversions) + 1
             /\ Head(conversions') = newConversion(now)
             /\ Tail(conversions') = conversions]_vars

\* C8 witness: two additions made at different clock readings, the later
\* one in front.
C8_Witness ==
  /\ Len(conversions) = 2
  /\ conversions[1].id > conversions[2].id

\* C9: all records in the log have pairwise distinct ids.
C9_DistinctIds ==
  \A i, j \in 1..Len(conversions) :
    i # j => conversions[i].id # conversions[j].id

\* C10: the record of the latest successful copy, and no other, is marked
\* as copied during the whole 2000 ms window counted from that copy (the
\* timer that copy armed is the last one armed, and its deadline is the end
\* of the window), and no record is marked once every timer has fired.
C10_MarkedForOneWindow ==
  /\ (timers # <<>> /\ now < timers[Len(timers)].at)
       => copiedId = timers[Len(timers)].id
  /\ timers = <<>> => copiedId = NullId
\* C11: a record is added only in a state where streaming-active is true,
\* and while the view is on screen the convert-to-text button (as long as
\* the log has room) and the convert-to-speech button are enabled exactly
\* when streaming-active is true.
C11_ConvertOnlyWhileStreaming ==
  /\ [](Interactive =>
          /\ (Len(conversions) < MaxLog =>
                (ENABLED handleConvertToText <=> isStreaming))
          /\ (ENABLED handleConvertToSpeech <=> isStreaming))
  /\ [][Len(conversions') > Len(conversions) => isStreaming]_vars

\* C11 witness: a record was added, and the session it was added in is
\* still streaming.
C11_Witness ==
  /\ view = "mounted"
  /\ isStreaming
  /\ Len(conversions) = 1

\* C12: every step that removes anything from the log leaves it empty,
\* whatever its length was, and the log can be cleared whenever it is not
\* empty and the view is on screen.
C12_ClearEmptiesLog ==
  /\ []((Interactive /\ conversions # <<>>) => ENABLED clearConversions)
  /\ [][Len(conversions') < Len(conversions) => conversions' = <<>>]_vars

\* C12 witness: the log is empty although a record of it was copied before
\* (the mark still names that record), so the log was cleared.
C12_Witness ==
  /\ conversions = <<>>
  /\ copiedId # NullId
\* a clipboard write settles: one write fewer in flight
WriteSettles == BagCardinality(clipPending') < BagCardinality(clipPending)

\* the write that settles in this step
SettledWrites ==
  {c \in BagToSet(clipPending) : clipPending' = clipPending (-) SetToBag({c})}

\* the write succeeded: its record is marked and one timer is armed for it
WriteSucceeded ==
  \E c \in SettledWrites :
    /\ copiedId' = c.id
    /\ timers' = Append(timers, [at |-> now + CopiedDelay, id |-> c.id])

\* C13: a clipboard write that settles without marking its record (a
\* failed write) changes no UI state: the copied mark, the error message,
\* the log, the camera state and the dark mode are unchanged and no timer is
\* armed.  Every settling write either succeeds or does exactly that.
C13_FailedCopyChangesNothing ==
  [][WriteSettles =>
       \/ WriteSucceeded
       \/ UNCHANGED <<copiedId, timers, error, conversions, isStreaming,
                      streamRef, srcObject, tracks, pending, view, videoRef,
                      isDarkMode, docDark, now>>]_vars

\* C13 witness: a write is in flight while a record is marked and its timer
\* is armed; if that write fails the mark and the timer must stay.
C13_Witness ==
  /\ BagCardinality(clipPending) = 1
  /\ copiedId # NullId
  /\ Len(timers) = 1

\* s is a suffix of t
IsSuffix(s, t) ==
  /\ Len(s) <= Len(t)
  /\ \A i \in 1..Len(s) : s[i] = t[Len(t) - Len(s) + i]

\* C14: in every step other than clear() (a step that empties a non-empty
\* log) the log before the step is a suffix of the log after it: no record
\* is changed, removed or moved on its own.
C14_LogGrowsAtHeadOnly ==
  [][(conversions' # <<>> \/ conversions = <<>>)
       => IsSuffix(conversions, conversions')]_vars

\* C14 witness: two records are still in the log, unchanged, after the
\* session they were made in was stopped.
C14_Witness ==
  /\ Len(conversions) = 2
  /\ ~isStreaming
  /\ \A i \in 1..2 : conversions[i] = newConversion(conversions[i].id)
\* the stored handle, streaming-active and the error message
cameraState == <<streamRef, isStreaming, error>>

\* a step of add-record, clear, copy (click, success, failure, timer
\* expiry) or the dark-mode toggle: the view stays as it is and the log, the
\* copied mark, the writes in flight, the timers or the dark mode change
LogCopyOrToggleStep ==
  /\ view' = view
  /\ <<conversions, copiedId, clipPending, timers, isDarkMode, docDark>>'
       # <<conversions, copiedId, clipPending, timers, isDarkMode, docDark>>

\* a step of start() (request, completion or failure) or stop(): the
\* camera handle, the tracks, the requests in flight or the camera state
\* change
StartOrStopStep ==
  <<cameraState, srcObject, tracks, pending>>'
    # <<cameraState, srcObject, tracks, pending>>

\* C15: add-record, convert-to-speech, clear, copy and the dark-mode toggle
\* leave the stored handle, streaming-active and the error message (and the
\* tracks and requests in flight) unchanged; start() and stop() leave the
\* log and the copied mark unchanged.
C15_CameraAndLogFrames ==
  /\ [][LogCopyOrToggleStep
          => UNCHANGED <<cameraState, srcObject, tracks, pending>>]_vars
  /\ [][StartOrStopStep => UNCHANGED <<conversions, copiedId>>]_vars

\* C15 witness: the session was stopped while a record is in the log and
\* marked as copied, with its timer armed.
C15_Witness ==
  /\ view = "mounted"
  /\ ~isStreaming
  /\ Len(tracks) >= 1
  /\ conversions # <<>>
  /\ copiedId # NullId
  /\ timers # <<>>
\* C16: stop() does not cancel a pending acquisition.  In every state where
\* an acquisition is pending, no handle is stored and the view is mounted,
\* stop() changes nothing and the acquisition can still complete by storing
\* its stream and setting streaming-active; and no stop() on an active
\* session changes the number of acquisitions in flight.
C16_StopKeepsPendingAcquisition ==
  /\ []((pending > 0 /\ streamRef = NullStream /\ view = "mounted") =>
          /\ stopCamera(videoRef, UIState) = UIState
          /\ ENABLED (/\ getUserMediaResolve
                      /\ streamRef' = Len(tracks')
                      /\ isStreaming'))
  /\ [][StopsActiveSession => pending' = pending]_vars

\* C16 witness: an acquisition is pending with no handle stored and the view
\* mounted, after stop() has released an earlier stream: two starts were
\* issued and the session of the first was stopped before the second
\* completed, or a session was stopped and a new start issued.
C16_Witness ==
  /\ view = "mounted"
  /\ pending > 0
  /\ streamRef = NullStream
  /\ ~isStreaming
  /\ Len(tracks) = 1
  /\ tracks[1].readyState = "ended"

\* C17: streaming-active is true exactly when a stream handle is stored.
C17_FlagIffHandle == isStreaming <=> streamRef # NullStream

\* C17 witness: an acquisition completed after the view was torn down: a
\* stream exists but neither the flag nor the handle is set.
C17_Witness ==
  /\ view = "unmounted"
  /\ LiveStreams # {}
  /\ ~isStreaming
  /\ streamRef = NullStream
\* C18: the dark-mode flag and the 'dark' class of the root element always
\* agree: from a root element without the class, after the mount-time
\* seeding and any sequence of toggles, the flag is true exactly when the
\* class is present.
C18_FlagMatchesClass == isDarkMode <=> docDark

\* C18 witness: the view is mounted in dark mode, seeded or toggled, while
\* the camera session is running.
C18_Witness ==
  /\ view = "mounted"
  /\ isDarkMode
  /\ docDark
  /\ isStreaming

\* C19: the copied mark never stays set forever.  When time passes and armed
\* timers are run, a set mark is always cleared again, and whenever every
\* scheduled timer has fired the mark is absent.
C19_MarkEventuallyCleared ==
  /\ (copiedId # NullId) ~> (copiedId = NullId)
  /\ [](timers = <<>> => copiedId = NullId)

\* C19 witness: the clock is past the last moment the user acts, which it
\* reaches only while a timer is armed, and every timer has fired.
C19_Witness ==
  /\ now > MaxTime
  /\ timers = <<>>
  /\ clipPending = EmptyBag
  /\ copiedId = NullId
====
